---- MODULE Spec2Model ----
(***************************************************************************)
(* El Dorado County parcel processor (src/ParcelProcessor.py).             *)
(*                                                                         *)
(* main() runs once per configuration section: it compares the newest      *)
(* date of the county's parcel service with the newest date of the local   *)
(* dataset and, when they differ, calls updateParcels(), which submits an  *)
(* extraction job, polls it, downloads and unzips the result, parses the   *)
(* ownership columns of every row, derives the legacy parcel id, and then  *)
(* truncates and reloads the destination dataset.                          *)
(*                                                                         *)
(* Text values are sequences of one-character strings, so that the         *)
(* regular expressions of the source can be computed on them.              *)
(***************************************************************************)
EXTENDS Integers, Sequences, FiniteSets, TLC

(***************************************************************************)
(* Characters and text                                                     *)
(***************************************************************************)

UpperCase == <<"A","B","C","D","E","F","G","H","I","J","K","L","M",
               "N","O","P","Q","R","S","T","U","V","W","X","Y","Z">>

LowerCase == <<"a","b","c","d","e","f","g","h","i","j","k","l","m",
               "n","o","p","q","r","s","t","u","v","w","x","y","z">>

Digits == {"0","1","2","3","4","5","6","7","8","9"}

\* \d of the re module
IsDigit(c) == c \in Digits

\* [A-Z]
IsUpper(c) == \E k \in 1..Len(UpperCase) : UpperCase[k] = c

\* \s (the only white space of the modelled texts is the space)
IsSpace(c) == c = " "

\* \w : letters, digits and the underscore; \W is its complement
IsWord(c) ==
    \/ IsDigit(c)
    \/ IsUpper(c)
    \/ \E k \in 1..Len(LowerCase) : LowerCase[k] = c
    \/ c = "_"

\* str.lower() on one character
LowerChar(c) ==
    IF IsUpper(c)
    THEN LowerCase[CHOOSE k \in 1..Len(UpperCase) : UpperCase[k] = c]
    ELSE c

\* str.lower()
Lower(s) == [k \in 1..Len(s) |-> LowerChar(s[k])]

\* s[a:b] with 1-based inclusive bounds; empty when a > b
Slice(s, a, b) == IF a > b THEN <<>> ELSE SubSeq(s, a, b)

\* whether text sub occurs in s at position p
OccursAt(s, sub, p) ==
    /\ p >= 1
    /\ p + Len(sub) - 1 <= Len(s)
    /\ \A k \in 1..Len(sub) : s[p + k - 1] = sub[k]

\* str.startswith
StartsWith(s, pre) == OccursAt(s, pre, 1)

\* the `in` operator on two str
Contains(s, sub) == \E p \in 1..(Len(s) + 1) : OccursAt(s, sub, p)

\* the least member of a non-empty set of integers
Least(S) == CHOOSE x \in S : \A y \in S : x <= y

\* the greatest member of a non-empty set of integers
Greatest(S) == CHOOSE x \in S : \A y \in S : x >= y

(***************************************************************************)
(* Literals of the source                                                  *)
(***************************************************************************)

\* ' ' : the blank column value
Blank == <<" ">>

\* '' : the empty string
Empty == <<>>

\* 'None' : the string literal of line 262
NoneText == <<"N","o","n","e">>

\* 'UNKNOWN'
UNKNOWN == <<"U","N","K","N","O","W","N">>

\* 'UNITED STATES OF AMERICA'
USA == <<"U","N","I","T","E","D"," ","S","T","A","T","E","S"," ",
         "O","F"," ","A","M","E","R","I","C","A">>

\* countriesList = ['japan']
countriesList == { <<"j","a","p","a","n">> }

CANADA == <<"C","A","N","A","D","A">>

BRAZIL == <<"B","R","A","Z","I","L">>

PO == <<"P","O">>

P_O == <<"P"," ","O">>

P__O == <<"P"," "," ","O">>

PdotOdot == <<"P",".","O",".">>

PO_BOX == <<"P","O"," ","B","O","X">>

P_O_BOX == <<"P"," ","O"," ","B","O","X">>

PdotOdot_BOX == <<"P",".","O","."," ","B","O","X">>

O_BOX == <<"O"," ","B","O","X">>

ONE == <<"O","N","E">>

ONE_ == <<"O","N","E"," ">>

TWO_ == <<"T","W","O"," ">>

\* a column that was added by AddFields and never written
NULL == <<"<NULL>">>

\* a local variable of updateParcels that no statement has assigned yet
Unbound == <<"<unbound>">>

\* re.search found nothing
NoMatch == [matched |-> FALSE]

(***************************************************************************)
(* The regular expressions of lines 78-82, as re.search computes them      *)
(***************************************************************************)

\* \s([A-Z]{1,2})\s(?=\d) read at position i: the two-letter reading
TwoLetterState(s, i) ==
    /\ i + 4 <= Len(s)
    /\ IsSpace(s[i])
    /\ IsUpper(s[i+1])
    /\ IsUpper(s[i+2])
    /\ IsSpace(s[i+3])
    /\ IsDigit(s[i+4])

\* the one-letter reading, tried when the two-letter reading fails
OneLetterState(s, i) ==
    /\ i + 3 <= Len(s)
    /\ IsSpace(s[i])
    /\ IsUpper(s[i+1])
    /\ IsSpace(s[i+2])
    /\ IsDigit(s[i+3])

\* cityStateZipRegex = (.+?)\s([A-Z]{1,2})\s(?=\d)(.*)
\* The lazy first group makes the search succeed from the first character
\* whenever it succeeds at all, with the shortest city that works.
cityStateZipRegex(s) ==
    LET ends == { i \in 2..Len(s) : TwoLetterState(s, i) \/ OneLetterState(s, i) }
    IN  IF ends = {} THEN NoMatch
        ELSE LET i == Least(ends)
                 w == IF TwoLetterState(s, i) THEN 2 ELSE 1
             IN  [matched |-> TRUE,
                  g1 |-> Slice(s, 1, i - 1),
                  g2 |-> Slice(s, i + 1, i + w),
                  g3 |-> Slice(s, i + w + 2, Len(s))]

\* the first position at or after p that holds no space
RECURSIVE SkipSpaces(_, _)
SkipSpaces(s, p) ==
    IF p <= Len(s) /\ IsSpace(s[p]) THEN SkipSpaces(s, p + 1) ELSE p

\* the number of digits that start at position p
RECURSIVE DigitRun(_, _)
DigitRun(s, p) ==
    IF p > Len(s) \/ ~IsDigit(s[p]) THEN 0 ELSE 1 + DigitRun(s, p + 1)

\* \d{1,5}\D+.+ matches at p: at most five digits, then a non-digit and at
\* least one more character
AddressAt(s, p) ==
    /\ p <= Len(s)
    /\ IsDigit(s[p])
    /\ DigitRun(s, p) <= 5
    /\ p + DigitRun(s, p) + 1 <= Len(s)

\* the address regex read as "the text after the street number"
addressRegexRemainder(s) ==
    LET starts == { p \in 1..Len(s) : AddressAt(s, p) }
    IN  IF starts = {} THEN NoMatch
        ELSE LET p == Least(starts)
             IN  [matched |-> TRUE,
                  g1 |-> Slice(s, SkipSpaces(s, p + DigitRun(s, p)), Len(s))]

\* addressRegex = (\d{1,5}\D+.+) : group 1 is the whole match, from the first
\* position where it matches to the end of the text
addressRegex(s) ==
    LET starts == { p \in 1..Len(s) : AddressAt(s, p) }
    IN  IF starts = {} THEN NoMatch
        ELSE [matched |-> TRUE, g1 |-> Slice(s, Least(starts), Len(s))]

\* the first position at or after p that holds a word character, or Len+1
RECURSIVE SkipNonWord(_, _)
SkipNonWord(s, p) ==
    IF p <= Len(s) /\ ~IsWord(s[p]) THEN SkipNonWord(s, p + 1) ELSE p

\* P\s*O BOX\W*[0-9]{1,6} read at position p: the last position of the match,
\* or 0 when it does not match there
PoBoxEnd(s, p) ==
    IF p > Len(s) \/ s[p] # "P" THEN 0
    ELSE LET o == SkipSpaces(s, p + 1)
         IN  IF ~OccursAt(s, O_BOX, o) THEN 0
             ELSE LET d == SkipNonWord(s, o + Len(O_BOX))
                      n == DigitRun(s, d)
                  IN  IF n = 0 THEN 0
                      ELSE d + (IF n > 6 THEN 6 ELSE n) - 1

\* ([^x]+)\W(P\s*O BOX ...) with group 1 starting at a and the box at p
PoBoxFrom(s, a, p) ==
    /\ a <= p - 2
    /\ \A k \in a..(p - 2) : s[k] # "x"
    /\ ~IsWord(s[p - 1])
    /\ PoBoxEnd(s, p) > 0

\* poBoxRegex = ([^x]+)\W(P\s*O BOX\W*[0-9]{1,6}) : the earliest start, and
\* from it the greedy first group, which takes the last box it can reach
poBoxRegex(s) ==
    LET pairs == { ap \in (1..Len(s)) \X (1..Len(s)) : PoBoxFrom(s, ap[1], ap[2]) }
    IN  IF pairs = {} THEN NoMatch
        ELSE LET a == Least({ ap[1] : ap \in pairs })
                 p == Greatest({ ap[2] : ap \in { x \in pairs : x[1] = a } })
             IN  [matched |-> TRUE,
                  g1 |-> Slice(s, a, p - 2),
                  g2 |-> Slice(s, p, PoBoxEnd(s, p))]

\* \s([A-Z]{1,2})\s(CANADA)\s read at position i with a state of w letters
CanadaAt(s, i, w) ==
    /\ i + w + 8 <= Len(s)
    /\ IsSpace(s[i])
    /\ \A k \in 1..w : IsUpper(s[i + k])
    /\ IsSpace(s[i + w + 1])
    /\ OccursAt(s, CANADA, i + w + 2)
    /\ IsSpace(s[i + w + 8])

\* canadaRegex = (.+?)\s([A-Z]{1,2})\s(CANADA)\s(.*)
canadaRegex(s) ==
    LET ends == { i \in 2..Len(s) : CanadaAt(s, i, 2) \/ CanadaAt(s, i, 1) }
    IN  IF ends = {} THEN NoMatch
        ELSE LET i == Least(ends)
                 w == IF CanadaAt(s, i, 2) THEN 2 ELSE 1
             IN  [matched |-> TRUE,
                  g1 |-> Slice(s, 1, i - 1),
                  g2 |-> Slice(s, i + 1, i + w),
                  g3 |-> CANADA,
                  g4 |-> Slice(s, i + w + 9, Len(s))]

\* \s(BRAZIL)\s read at position i
BrazilAt(s, i) ==
    /\ i + 7 <= Len(s)
    /\ IsSpace(s[i])
    /\ OccursAt(s, BRAZIL, i + 1)
    /\ IsSpace(s[i + 7])

\* brazilRegex = (.+?)\s(BRAZIL)\s(.*)
brazilRegex(s) ==
    LET ends == { i \in 2..Len(s) : BrazilAt(s, i) }
    IN  IF ends = {} THEN NoMatch
        ELSE LET i == Least(ends)
             IN  [matched |-> TRUE,
                  g1 |-> Slice(s, 1, i - 1),
                  g2 |-> BRAZIL,
                  g3 |-> Slice(s, i + 8, Len(s))]

(***************************************************************************)
(* The column values the extract is drawn from                             *)
(***************************************************************************)

\* 'SMITH J'
SMITH == <<"S","M","I","T","H"," ","J">>

\* '123 MAIN ST'
MAIN_123 == <<"1","2","3"," ","M","A","I","N"," ","S","T">>

\* 'MAIN ST'
MAIN_ST == <<"M","A","I","N"," ","S","T">>

\* 'PO BOX 12'
BOX_12 == <<"P","O"," ","B","O","X"," ","1","2">>

\* 'J PO BOX 12'
J_BOX_12 == <<"J"," ","P","O"," ","B","O","X"," ","1","2">>

\* 'RENO NV 89501'
RENO == <<"R","E","N","O"," ","N","V"," ","8","9","5","0","1">>

\* 'REAR 9 ELM'
REAR_9_ELM == <<"R","E","A","R"," ","9"," ","E","L","M">>

\* 'SOUTH LAKE TAHOE CA 96150'
SLT == <<"S","O","U","T","H"," ","L","A","K","E"," ","T","A","H","O","E"," ",
         "C","A"," ","9","6","1","5","0">>

\* 'TORONTO ON CANADA M5V'
TORONTO == <<"T","O","R","O","N","T","O"," ","O","N"," ","C","A","N","A","D","A",
             " ","M","5","V">>

\* 'RIO BRAZIL 20000'
RIO == <<"R","I","O"," ","B","R","A","Z","I","L"," ","2","0","0","0","0">>

\* 'PARIS FRANCE'
PARIS == <<"P","A","R","I","S"," ","F","R","A","N","C","E">>

\* 'JAPAN'
JAPAN == <<"J","A","P","A","N">>

\* 'Japan'
Japan == <<"J","a","p","a","n">>

\* 'FRANCE'
FRANCE == <<"F","R","A","N","C","E">>

\* '060123045601'
ID12 == <<"0","6","0","1","2","3","0","4","5","6","0","1">>

\* '06012'
ID5 == <<"0","6","0","1","2">>

PrclIds == { ID12, ID5, NULL }

\* rows whose mail_addr4 holds text: a city, state and zip, a country, the
\* word UNKNOWN, or something else
Addr4Records ==
    [owner_name : {SMITH}, mail_addr1 : {MAIN_123}, mail_addr2 : {Blank},
     mail_addr3 : {Blank, MAIN_123, REAR_9_ELM, MAIN_ST, BOX_12},
     mail_addr4 : {SLT}]
    \cup
    [owner_name : {SMITH}, mail_addr1 : {MAIN_123}, mail_addr2 : {Blank},
     mail_addr3 : {Blank, MAIN_123},
     mail_addr4 : {JAPAN, Japan, UNKNOWN, FRANCE}]

\* rows whose last text is in mail_addr3
Addr3Records ==
    [owner_name : {SMITH}, mail_addr1 : {MAIN_123},
     mail_addr2 : {Blank, MAIN_123, BOX_12},
     mail_addr3 : {RENO, FRANCE}, mail_addr4 : {Blank}]

\* rows with mail_addr3 and mail_addr4 blank
Addr2Records ==
    [owner_name : {Blank}, mail_addr1 : {Blank, MAIN_123},
     mail_addr2 : {Blank}, mail_addr3 : {Blank}, mail_addr4 : {Blank}]
    \cup
    [owner_name : {USA}, mail_addr1 : {Blank, MAIN_123},
     mail_addr2 : {Blank, RENO}, mail_addr3 : {Blank}, mail_addr4 : {Blank}]
    \cup
    [owner_name : {SMITH}, mail_addr1 : {Blank},
     mail_addr2 : {Blank, RENO}, mail_addr3 : {Blank}, mail_addr4 : {Blank}]
    \cup
    [owner_name : {SMITH}, mail_addr1 : {MAIN_123, J_BOX_12},
     mail_addr2 : {Blank, RENO, TORONTO, RIO, PARIS},
     mail_addr3 : {Blank}, mail_addr4 : {Blank}]

\* rows of the United States whose mail_addr3 or mail_addr4 holds text
UsaRecords ==
    { [owner_name |-> USA, mail_addr1 |-> MAIN_123, mail_addr2 |-> Blank,
       mail_addr3 |-> MAIN_123, mail_addr4 |-> SLT],
      [owner_name |-> USA, mail_addr1 |-> MAIN_123, mail_addr2 |-> Blank,
       mail_addr3 |-> RENO, mail_addr4 |-> Blank] }

\* the columns of one row that the first cursor reads
Records == Addr4Records \cup Addr3Records \cup Addr2Records \cup UsaRecords

(***************************************************************************)
(* The body of the first cursor loop (lines 181-374)                       *)
(***************************************************************************)

\* the six variables owner, address, city, state, zipCode and country, which
\* live in updateParcels and so outlive one pass of the loop
NoLocals ==
    [owner |-> Unbound, address |-> Unbound, city |-> Unbound,
     state |-> Unbound, zipCode |-> Unbound, country |-> Unbound]

\* the pass reached line 366 with these variables
Assigned(L) == [kind |-> "assigned", error |-> "none", locals |-> L]

\* the pass ended at the continue of line 195
Skipped(L) == [kind |-> "continue", error |-> "none", locals |-> L]

\* the pass raised
Raised(e, L) == [kind |-> "raise", error |-> e, locals |-> L]

\* row[4].lower() in countriesList
KnownCountryCaseSensitive(s) == s \in countriesList

KnownCountry(s) == Lower(s) \in countriesList

\* line 195: mail_addr4 is no city, state and zip
UnparsedAddr4Blank(r, L) ==
    Assigned([owner |-> r.owner_name, address |-> Empty, city |-> Empty,
              state |-> Empty, zipCode |-> Empty, country |-> Empty])

UnparsedAddr4(r, L) == Skipped(L)

\* lines 184-222: mail_addr4 is not blank
MailAddr4(r, L) ==
    LET r3 == r.mail_addr3
        r4 == r.mail_addr4
        cityStateZip == cityStateZipRegex(r4)
        add == addressRegex(r3)
        L1 == [L EXCEPT !.city = cityStateZip.g1, !.state = cityStateZip.g2,
                        !.zipCode = cityStateZip.g3, !.country = Empty]
        joined == r.owner_name \o <<" ">> \o r.mail_addr1 \o <<" ">> \o r.mail_addr2
    IN  IF r4 # UNKNOWN /\ ~KnownCountry(r4)
        THEN IF ~cityStateZip.matched THEN UnparsedAddr4(r, L)
             ELSE IF \/ StartsWith(r3, PO) \/ StartsWith(r3, P_O)
                     \/ Contains(r3, PO_BOX) \/ Contains(r3, P_O_BOX)
                     \/ Contains(r3, PdotOdot_BOX)
                  THEN Assigned([L1 EXCEPT !.address = r3, !.owner = joined])
                  ELSE IF ~add.matched
                       THEN Raised("AttributeError", L1)
                       ELSE Assigned([L1 EXCEPT !.address = add.g1, !.owner = joined])
        ELSE IF KnownCountry(r4)
        THEN Assigned([owner |-> r.owner_name, address |-> r.mail_addr1,
                       city |-> r.mail_addr2, state |-> r3,
                       zipCode |-> Empty, country |-> r4])
        ELSE Assigned([owner |-> r.owner_name, address |-> Empty, city |-> Empty,
                       state |-> Empty, zipCode |-> Empty, country |-> Empty])

\* lines 225-267: mail_addr4 is blank and mail_addr3 is not
MailAddr3(r, L) ==
    LET cityStateZip == cityStateZipRegex(r.mail_addr3)
        row2 == IF StartsWith(r.mail_addr2, <<" ">>)
                THEN Slice(r.mail_addr2, 2, Len(r.mail_addr2))
                ELSE r.mail_addr2
        add == addressRegex(row2)
        address ==
            IF \/ StartsWith(row2, PO) \/ StartsWith(row2, P_O)
               \/ StartsWith(row2, PdotOdot)
            THEN row2
            ELSE IF \/ Contains(row2, PO_BOX) \/ Contains(row2, P_O_BOX)
                    \/ StartsWith(row2, ONE_) \/ StartsWith(row2, TWO_)
                 THEN row2
                 ELSE IF ~add.matched THEN NoneText ELSE add.g1
    IN  IF ~cityStateZip.matched
        THEN Assigned([owner |-> r.owner_name, address |-> r.mail_addr1,
                       city |-> r.mail_addr2, state |-> Empty,
                       zipCode |-> Empty, country |-> r.mail_addr3])
        ELSE Assigned([owner |-> r.owner_name \o <<" ">> \o r.mail_addr1,
                       address |-> address, city |-> cityStateZip.g1,
                       state |-> cityStateZip.g2, zipCode |-> cityStateZip.g3,
                       country |-> Empty])

\* lines 270-282: the parcels of the United States
UnitedStates(r, L) ==
    LET cityStateZip == cityStateZipRegex(r.mail_addr2)
    IN  IF ~cityStateZip.matched
        THEN Assigned([owner |-> r.owner_name, address |-> r.mail_addr1,
                       city |-> Empty, state |-> Empty, zipCode |-> Empty,
                       country |-> Empty])
        ELSE Assigned([owner |-> r.owner_name, address |-> r.mail_addr1,
                       city |-> cityStateZip.g1, state |-> cityStateZip.g2,
                       zipCode |-> cityStateZip.g3, country |-> Empty])

\* lines 316-321: "CANADA" in row2
Canada(row2, res) ==
    LET m == canadaRegex(row2)
    IN  IF res.kind # "assigned" \/ ~Contains(row2, CANADA) THEN res
        ELSE IF ~m.matched THEN Raised("AttributeError", res.locals)
        ELSE Assigned([res.locals EXCEPT !.city = m.g1, !.state = m.g2,
                                         !.zipCode = m.g4, !.country = m.g3])

\* lines 322-327: "BRAZIL" in row2
Brazil(row2, res) ==
    LET m == brazilRegex(row2)
    IN  IF res.kind # "assigned" \/ ~Contains(row2, BRAZIL) THEN res
        ELSE IF ~m.matched THEN Raised("AttributeError", res.locals)
        ELSE Assigned([res.locals EXCEPT !.city = m.g1, !.state = Empty,
                                         !.zipCode = m.g3, !.country = m.g2])

\* line 363, after the two if statements of the foreign case
SetOwner(r, res) ==
    IF res.kind # "assigned" THEN res
    ELSE Assigned([res.locals EXCEPT !.owner = r.owner_name])

\* lines 329-360: mail_addr2 is a city, state and zip; the address is mail_addr1
DomesticAddr1(r, L, cityStateZip) ==
    LET row1 == IF StartsWith(r.mail_addr1, <<" ">>)
                THEN Slice(r.mail_addr1, 2, Len(r.mail_addr1))
                ELSE r.mail_addr1
        poBox == poBoxRegex(row1)
        add == addressRegex(row1)
        address ==
            IF \/ StartsWith(row1, PO) \/ StartsWith(row1, PdotOdot)
               \/ StartsWith(row1, P_O) \/ StartsWith(row1, P__O)
            THEN r.mail_addr1
            ELSE IF Contains(row1, PO_BOX) \/ Contains(row1, P_O_BOX)
                 THEN IF ~poBox.matched THEN row1 ELSE poBox.g2
                 ELSE IF ~add.matched \/ StartsWith(row1, ONE) THEN row1 ELSE add.g1
    IN  Assigned([L EXCEPT !.country = Empty, !.city = cityStateZip.g1,
                           !.state = cityStateZip.g2, !.zipCode = cityStateZip.g3,
                           !.address = address])

\* lines 299-363: only owner_name and mail_addr1 are known to be present
MailAddr2(r, L) ==
    LET row2 == r.mail_addr2
        cityStateZip == cityStateZipRegex(row2)
    IN  IF row2 = Blank
        THEN Assigned([owner |-> r.owner_name, address |-> r.mail_addr1,
                       city |-> Empty, state |-> Empty, zipCode |-> Empty,
                       country |-> Empty])
        ELSE IF ~cityStateZip.matched
             THEN SetOwner(r, Brazil(row2, Canada(row2, Assigned(L))))
             ELSE SetOwner(r, DomesticAddr1(r, L, cityStateZip))

\* the ladder with the test of mail_addr1 ahead of the test for the United
\* States
LadderAddr1First(r, L) ==
    IF r.mail_addr4 # Blank THEN MailAddr4(r, L)
    ELSE IF r.mail_addr3 # Blank THEN MailAddr3(r, L)
    ELSE IF r.owner_name = Blank
    THEN Assigned([owner |-> Empty, address |-> Empty, city |-> Empty,
                   state |-> Empty, zipCode |-> Empty, country |-> Empty])
    ELSE IF r.mail_addr1 = Blank
    THEN Assigned([owner |-> r.owner_name, address |-> Empty, city |-> Empty,
                   state |-> Empty, zipCode |-> Empty, country |-> Empty])
    ELSE IF r.owner_name = USA THEN UnitedStates(r, L)
    ELSE MailAddr2(r, L)

\* the if/elif ladder of lines 184-363
Ladder(r, L) ==
    IF r.mail_addr4 # Blank THEN MailAddr4(r, L)
    ELSE IF r.mail_addr3 # Blank THEN MailAddr3(r, L)
    ELSE IF r.owner_name = USA THEN UnitedStates(r, L)
    ELSE IF r.owner_name = Blank
    THEN Assigned([owner |-> Empty, address |-> Empty, city |-> Empty,
                   state |-> Empty, zipCode |-> Empty, country |-> Empty])
    ELSE IF r.mail_addr1 = Blank
    THEN Assigned([owner |-> r.owner_name, address |-> Empty, city |-> Empty,
                   state |-> Empty, zipCode |-> Empty, country |-> Empty])
    ELSE MailAddr2(r, L)

\* whether lines 366-371 read a variable that was never assigned
ReadsUnbound(L) ==
    \/ L.owner = Unbound \/ L.address = Unbound \/ L.city = Unbound
    \/ L.state = Unbound \/ L.zipCode = Unbound \/ L.country = Unbound

\* one pass of the loop over the row r, entered with the variables L
ParseRow(r, L) ==
    LET res == Ladder(r, L)
    IN  IF res.kind = "assigned" /\ ReadsUnbound(res.locals)
        THEN Raised("UnboundLocalError", res.locals)
        ELSE res

\* the row as an unprocessed row of the in-memory feature class: the six new
\* columns hold what AddFields left there
FreshRow(r) ==
    [owner_name |-> r.owner_name, mail_addr1 |-> r.mail_addr1,
     mail_addr2 |-> r.mail_addr2, mail_addr3 |-> r.mail_addr3,
     mail_addr4 |-> r.mail_addr4,
     owner |-> NULL, owner_address |-> NULL, owner_city |-> NULL,
     owner_state |-> NULL, owner_zip |-> NULL, owner_country |-> NULL]

\* lines 366-374: the row after cursor.updateRow
UpdatedRow(r, L) ==
    [FreshRow(r) EXCEPT !.owner = L.owner, !.owner_address = L.address,
                        !.owner_city = L.city, !.owner_state = L.state,
                        !.owner_zip = L.zipCode, !.owner_country = L.country]

\* line 381: row[0][:6] + row[0][-2:]
LegacyId(id) ==
    Slice(id, 1, IF Len(id) < 6 THEN Len(id) ELSE 6)
        \o Slice(id, IF Len(id) < 2 THEN 1 ELSE Len(id) - 1, Len(id))

(***************************************************************************)
(* Dates (lines 450-460), in hours                                         *)
(***************************************************************************)

\* America/Los_Angeles, as hours east of UTC
PacificUtcOffset == -8

\* datetime.fromtimestamp: the wall clock of the host, which keeps Pacific time
FromTimestamp(t) == t + PacificUtcOffset

\* tz.localize(naive): the same wall clock, now marked as Pacific time
Localize(wall) == [wall |-> wall, utcoffset |-> PacificUtcOffset]

\* naive.replace(tzinfo=timezone('UTC'))
ReplaceUtc(wall) == [wall |-> wall, utcoffset |-> 0]

\* aware.astimezone(pytz.timezone("America/Los_Angeles"))
AsPacific(d) ==
    [wall |-> d.wall - d.utcoffset + PacificUtcOffset, utcoffset |-> PacificUtcOffset]

\* the moment an aware datetime names; aware datetimes compare by it
Moment(d) == d.wall - d.utcoffset

\* a date variable of main that no statement has assigned yet
NoDate == [wall |-> 0, utcoffset |-> 0]

\* line 460, read as "always"
AlwaysUpdate(slt, edc) == TRUE

\* line 460, read as "the county's data is newer"
RemoteIsNewer(slt, edc) == Moment(slt) < Moment(edc)

\* line 460: sltLastUpdate != edcLastUpdate
NeedsUpdate(slt, edc) == Moment(slt) # Moment(edc)

(***************************************************************************)
(* Bounds                                                                  *)
(***************************************************************************)

\* configuration sections, each one run of main's loop body
NumSections == 1

\* rows of an extract
MaxRecords == 2

\* distinct newest dates
MaxStamp == 2

Stamps == 1..MaxStamp

(***************************************************************************)
(* State                                                                   *)
(***************************************************************************)

VARIABLES
    pc,                  \* the statement main or updateParcels is at
    section,             \* how many configuration sections main has started
    error,               \* the exception the try block of main raised
    calls,               \* the requests, dataset operations and e-mails of this run
    messagesLogged,      \* whether the server's messages were written to the log
    zipFolder,           \* whether zipPath\zipfolder exists
    parcelsDestination,  \* the destination dataset: its rows and newest poly_creat
    edcParcelUpdateDate, \* the newest date the county's service reported
    edcLastUpdate,
    sltLastUpdate,
    jobStatus,
    jobResult,
    memoryFeat,          \* the row count of in_memory/inMemoryFeatureClass
    parsed,              \* rows the first cursor has passed
    keyed,               \* rows the second cursor has passed
    row,                 \* the row of the cursor
    locals               \* owner, address, city, state, zipCode, country

vars == <<pc, section, error, calls, messagesLogged, zipFolder, parcelsDestination,
          edcParcelUpdateDate, edcLastUpdate, sltLastUpdate, jobStatus, jobResult,
          memoryFeat, parsed, keyed, row, locals>>

\* the variables of one call of updateParcels
frame == <<jobStatus, jobResult, memoryFeat, parsed, keyed, row, locals>>

\* the dates main read
dates == <<edcParcelUpdateDate, edcLastUpdate, sltLastUpdate>>

Statuses == { "esriJobSubmitted", "esriJobExecuting", "esriJobSucceeded",
              "esriJobFailed", "esriJobTimedOut" }

\* line 113: the loop condition
StillRunning(status) == status = "esriJobSubmitted" \/ status = "esriJobExecuting"

NoRow ==
    [owner_name |-> NULL, mail_addr1 |-> NULL, mail_addr2 |-> NULL,
     mail_addr3 |-> NULL, mail_addr4 |-> NULL,
     owner |-> NULL, owner_address |-> NULL, owner_city |-> NULL,
     owner_state |-> NULL, owner_zip |-> NULL, owner_country |-> NULL]

EmptyDataset == [count |-> 0, poly_creat |-> 0]

\* line 159: GetCount_management(memoryFeat)[0] == '0'
NeverBlank(n) == FALSE

IsBlankData(n) == n = 0

\* the cursor has passed some row
CursorPassedOne(done, count) == done >= 1

\* the for loop over a cursor ends when the cursor has passed every row
CursorExhausted(done, count) == done = count

\* updateParcels has not been entered: none of its variables exists
NoFrame ==
    /\ jobStatus' = "unbound"
    /\ jobResult' = "unbound"
    /\ memoryFeat' = 0
    /\ parsed' = 0
    /\ keyed' = 0
    /\ row' = NoRow
    /\ locals' = NoLocals

\* an exception that no except clause catches ends the script
RaiseUncaught(e) ==
    /\ pc' = "Crashed"
    /\ error' = e

\* an exception leaves the try block of main for line 466
Raise(e) ==
    /\ pc' = "Error"
    /\ error' = e

\* one more request, dataset operation or e-mail
Call(op) == calls' = Append(calls, op)

Init ==
    /\ pc = "Idle"
    /\ section = 0
    /\ error = "none"
    /\ calls = <<>>
    /\ messagesLogged = FALSE
    /\ zipFolder \in BOOLEAN
    /\ parcelsDestination \in [count : {MaxRecords}, poly_creat : Stamps]
    /\ edcParcelUpdateDate = 0
    /\ edcLastUpdate = NoDate
    /\ sltLastUpdate = NoDate
    /\ jobStatus = "unbound"
    /\ jobResult = "unbound"
    /\ memoryFeat = 0
    /\ parsed = 0
    /\ keyed = 0
    /\ row = NoRow
    /\ locals = NoLocals

(***************************************************************************)
(* main (lines 414-476)                                                    *)
(***************************************************************************)

\* lines 418-445: the next section of the configuration file
StartSection ==
    /\ pc = "Idle"
    /\ section < NumSections
    /\ section' = section + 1
    /\ pc' = "CheckingFreshness"
    /\ error' = "none"
    /\ calls' = <<>>
    /\ messagesLogged' = FALSE
    /\ UNCHANGED <<zipFolder, parcelsDestination, dates, frame>>

\* lines 447-464: the two newest dates and their comparison
CheckFreshness ==
    /\ pc = "CheckingFreshness"
    /\ \/ /\ Raise("RequestException")
          /\ UNCHANGED dates
       \/ \E t \in Stamps :
            /\ edcParcelUpdateDate' = t
            /\ edcLastUpdate' = Localize(FromTimestamp(t))
            /\ IF parcelsDestination.count = 0
               THEN /\ Raise("StopIteration")
                    /\ UNCHANGED sltLastUpdate
               ELSE /\ sltLastUpdate' = AsPacific(ReplaceUtc(parcelsDestination.poly_creat))
                    /\ pc' = IF NeedsUpdate(sltLastUpdate', edcLastUpdate')
                             THEN "RemoveOldZip" ELSE "Idle"
                    /\ UNCHANGED error
    /\ UNCHANGED <<section, calls, messagesLogged, zipFolder, parcelsDestination, frame>>

\* lines 466-476: the except clause; an exception of email_smtp leaves main
HandleError ==
    /\ pc = "Error"
    /\ Call("email:error")
    /\ \E sent \in BOOLEAN : pc' = IF sent THEN "Idle" ELSE "Crashed"
    /\ NoFrame
    /\ UNCHANGED <<section, error, messagesLogged, zipFolder, parcelsDestination, dates>>

(***************************************************************************)
(* updateParcels (lines 69-411)                                            *)
(***************************************************************************)

\* lines 72-75: the folder a failed run left behind
RemoveOldZip ==
    /\ pc = "RemoveOldZip"
    /\ \/ /\ zipFolder
          /\ Raise("OSError")
          /\ UNCHANGED zipFolder
       \/ /\ zipFolder' = FALSE
          /\ pc' = "SubmitJob"
          /\ UNCHANGED error
    /\ UNCHANGED <<section, calls, messagesLogged, parcelsDestination, dates, frame>>

\* lines 100-110: the answer to submitJob, with or without a jobId
SubmitJob ==
    /\ pc = "SubmitJob"
    /\ Call("submitJob")
    /\ \/ /\ Raise("RequestException")
          /\ UNCHANGED jobStatus
       \/ /\ pc' = "GetZip"
          /\ UNCHANGED <<error, jobStatus>>
       \/ \E s \in Statuses :
            /\ jobStatus' = s
            /\ pc' = IF StillRunning(s) THEN "Poll" ELSE "GetZip"
            /\ UNCHANGED error
    /\ UNCHANGED <<section, messagesLogged, zipFolder, parcelsDestination, dates,
                   jobResult, memoryFeat, parsed, keyed, row, locals>>

\* lines 113-130: one pass of the polling loop
Poll ==
    /\ pc = "Poll"
    /\ StillRunning(jobStatus)
    /\ \/ /\ Raise("RequestException")
          /\ UNCHANGED <<calls, messagesLogged, jobStatus, jobResult>>
       \/ \* the answer holds no jobStatus
          /\ UNCHANGED <<pc, error, calls, messagesLogged, jobStatus, jobResult>>
       \/ \E s \in Statuses, results \in BOOLEAN, messages \in BOOLEAN :
            /\ jobStatus' = s
            /\ IF s = "esriJobSucceeded" /\ results
               THEN /\ Call("resultUrl")
                    /\ \/ /\ Raise("RequestException")
                          /\ UNCHANGED jobResult
                       \/ /\ jobResult' = "bound"
                          /\ pc' = "GetZip"
                          /\ UNCHANGED error
                    /\ UNCHANGED messagesLogged
               ELSE IF s = "esriJobFailed"
               THEN /\ messagesLogged' = messages
                    /\ Raise("ValueError")
                    /\ UNCHANGED <<calls, jobResult>>
               ELSE /\ pc' = IF StillRunning(s) THEN "Poll" ELSE "GetZip"
                    /\ UNCHANGED <<error, calls, messagesLogged, jobResult>>
    /\ UNCHANGED <<section, zipFolder, parcelsDestination, dates,
                   memoryFeat, parsed, keyed, row, locals>>

\* lines 133-134: jobResult is read, bound or not
GetZip ==
    /\ pc = "GetZip"
    /\ IF jobResult = "unbound"
       THEN /\ Raise("UnboundLocalError")
            /\ UNCHANGED calls
       ELSE /\ Call("downloadZip")
            /\ \/ Raise("RequestException")
               \/ /\ pc' = "Unzip"
                  /\ UNCHANGED error
    /\ UNCHANGED <<section, messagesLogged, zipFolder, parcelsDestination, dates, frame>>

\* lines 137-147: the archive is written under zipPath
Unzip ==
    /\ pc = "Unzip"
    /\ Call("unzip")
    /\ \/ /\ Raise("OSError")
          /\ zipFolder' \in {zipFolder, TRUE}
       \/ /\ zipFolder' = TRUE
          /\ pc' = "CopyFeatures"
          /\ UNCHANGED error
    /\ UNCHANGED <<section, messagesLogged, parcelsDestination, dates, frame>>

\* lines 150-159: the copy into memory and its row count
CopyFeatures ==
    /\ pc = "CopyFeatures"
    /\ \/ /\ Raise("ExecuteError")
          /\ UNCHANGED memoryFeat
       \/ \E n \in 0..MaxRecords :
            /\ memoryFeat' = n
            /\ pc' = IF IsBlankData(n) THEN "NotifyEmpty" ELSE "AddFields"
            /\ UNCHANGED error
    /\ UNCHANGED <<section, calls, messagesLogged, zipFolder, parcelsDestination, dates,
                   jobStatus, jobResult, parsed, keyed, row, locals>>

\* lines 160-170: the e-mail about blank data, and the return
NotifyEmpty ==
    /\ pc = "NotifyEmpty"
    /\ Call("email:blank")
    /\ \/ /\ Raise("SMTPException")
          /\ UNCHANGED frame
       \/ /\ pc' = "Idle"
          /\ NoFrame
          /\ UNCHANGED error
    /\ UNCHANGED <<section, messagesLogged, zipFolder, parcelsDestination, dates>>

\* lines 173-176
AddFields ==
    /\ pc = "AddFields"
    /\ \/ Raise("ExecuteError")
       \/ /\ pc' = "Parsing"
          /\ UNCHANGED error
    /\ UNCHANGED <<section, calls, messagesLogged, zipFolder, parcelsDestination, dates, frame>>

\* lines 181-375: one row of the first cursor, or the end of its loop
ParseNext ==
    /\ pc = "Parsing"
    /\ IF CursorExhausted(parsed, memoryFeat)
       THEN /\ pc' = "JoinKeys"
            /\ UNCHANGED <<error, parsed, row, locals>>
       ELSE \E r \in Records :
              LET res == ParseRow(r, locals)
              IN  /\ locals' = res.locals
                  /\ IF res.kind = "raise"
                     THEN /\ Raise(res.error)
                          /\ row' = FreshRow(r)
                          /\ UNCHANGED parsed
                     ELSE /\ row' = IF res.kind = "assigned"
                                    THEN UpdatedRow(r, res.locals) ELSE FreshRow(r)
                          /\ parsed' = parsed + 1
                          /\ UNCHANGED <<pc, error>>
    /\ UNCHANGED <<section, calls, messagesLogged, zipFolder, parcelsDestination, dates,
                   jobStatus, jobResult, memoryFeat, keyed>>

\* lines 379-383: one row of the second cursor, or the end of its loop
JoinKeyNext ==
    /\ pc = "JoinKeys"
    /\ IF CursorExhausted(keyed, memoryFeat)
       THEN /\ pc' = "Truncate"
            /\ UNCHANGED <<error, keyed, row>>
       ELSE \E id \in PrclIds :
              IF id = NULL
              THEN /\ Raise("TypeError")
                   /\ row' = [prcl_id |-> id, prcl_id_join |-> NULL]
                   /\ UNCHANGED keyed
              ELSE /\ row' = [prcl_id |-> id, prcl_id_join |-> LegacyId(id)]
                   /\ keyed' = keyed + 1
                   /\ UNCHANGED <<pc, error>>
    /\ UNCHANGED <<section, calls, messagesLogged, zipFolder, parcelsDestination, dates,
                   jobStatus, jobResult, memoryFeat, parsed, locals>>

\* line 386
Truncate ==
    /\ pc = "Truncate"
    /\ Call("TruncateTable")
    /\ \/ /\ Raise("ExecuteError")
          /\ UNCHANGED parcelsDestination
       \/ /\ parcelsDestination' = EmptyDataset
          /\ pc' = "Append"
          /\ UNCHANGED error
    /\ UNCHANGED <<section, messagesLogged, zipFolder, dates, frame>>

\* line 388
AppendRows ==
    /\ pc = "Append"
    /\ Call("Append")
    /\ \/ /\ Raise("ExecuteError")
          /\ UNCHANGED parcelsDestination
       \/ /\ parcelsDestination' =
                [count |-> memoryFeat, poly_creat |-> edcParcelUpdateDate]
          /\ pc' = "RemoveZip"
          /\ UNCHANGED error
    /\ UNCHANGED <<section, messagesLogged, zipFolder, dates, frame>>

\* line 392
RemoveZip ==
    /\ pc = "RemoveZip"
    /\ \/ /\ Raise("OSError")
          /\ UNCHANGED zipFolder
       \/ /\ zipFolder' = FALSE
          /\ pc' = "NotifySuccess"
          /\ UNCHANGED error
    /\ UNCHANGED <<section, calls, messagesLogged, parcelsDestination, dates, frame>>

\* lines 395-411: the e-mail about the update, and the end of updateParcels
NotifySuccess ==
    /\ pc = "NotifySuccess"
    /\ Call("email:success")
    /\ \/ /\ Raise("SMTPException")
          /\ UNCHANGED frame
       \/ /\ pc' = "Idle"
          /\ NoFrame
          /\ UNCHANGED error
    /\ UNCHANGED <<section, messagesLogged, zipFolder, parcelsDestination, dates>>

Next ==
    \/ StartSection
    \/ CheckFreshness
    \/ HandleError
    \/ RemoveOldZip
    \/ SubmitJob
    \/ Poll
    \/ GetZip
    \/ Unzip
    \/ CopyFeatures
    \/ NotifyEmpty
    \/ AddFields
    \/ ParseNext
    \/ JoinKeyNext
    \/ Truncate
    \/ AppendRows
    \/ RemoveZip
    \/ NotifySuccess

Spec == Init /\ [][Next]_vars

\* every statement but the body of the first cursor loop
Rest ==
    \/ StartSection \/ CheckFreshness \/ HandleError \/ RemoveOldZip
    \/ SubmitJob \/ Poll \/ GetZip \/ Unzip \/ CopyFeatures \/ NotifyEmpty
    \/ AddFields \/ JoinKeyNext \/ Truncate \/ AppendRows \/ RemoveZip
    \/ NotifySuccess

\* a step of the first cursor loop: one more row passed, the loop left, or an
\* exception raised
ParseStep ==
    /\ pc = "Parsing"
    /\ parsed' = parsed + 1 \/ pc' \in {"JoinKeys", "Error"}

\* weak fairness of ParseNext, with ENABLED <<ParseNext>>_vars written out: the
\* loop can take a step exactly when pc = "Parsing"
ParseFair == []<>(pc # "Parsing") \/ []<><<ParseStep>>_vars

\* the script is a sequential program: its next statement is always executed
FairSpec == Spec /\ WF_vars(Rest) /\ ParseFair

(***************************************************************************)
(* Properties                                                              *)
(***************************************************************************)

\* the operations of this run, as a set
CallSet == { calls[i] : i \in 1..Len(calls) }

\* how often this run has issued the operation
Times(op) == Cardinality({ i \in 1..Len(calls) : calls[i] = op })

\* every b of this run comes after some a
Before(a, b) ==
    \A j \in 1..Len(calls) : calls[j] = b => \E i \in 1..(j - 1) : calls[i] = a

\* the variable row holds a row that the first cursor has passed
ParsedRow == pc \in {"Parsing", "JoinKeys"} /\ parsed >= 1 /\ keyed = 0

\* the five columns of row that the parse reads
RowInput ==
    [owner_name |-> row.owner_name, mail_addr1 |-> row.mail_addr1,
     mail_addr2 |-> row.mail_addr2, mail_addr3 |-> row.mail_addr3,
     mail_addr4 |-> row.mail_addr4]

\* the six columns of row that the parse writes
RowOutput ==
    <<row.owner, row.owner_address, row.owner_city, row.owner_state,
      row.owner_zip, row.owner_country>>

\* the parse of the row in hand raised
ParseRaised ==
    /\ pc = "Error"
    /\ error \in {"AttributeError", "UnboundLocalError"}
    /\ row.mail_addr4 # NULL

\* C1: the parse of every row ends without raising and leaves all six output
\* columns of the row assigned, so that no row stops the batch.
C1_ParseTotal ==
    /\ ~ParseRaised
    /\ ParsedRow => \A k \in 1..6 : RowOutput[k] # NULL

\* C2: the six columns written for a row are a function of the row's own five
\* input columns: they are what parsing that row with nothing carried over
\* from earlier rows writes.
C2_NoCarryOver ==
    (ParsedRow /\ \E k \in 1..6 : RowOutput[k] # NULL) =>
        LET alone == ParseRow(RowInput, NoLocals)
        IN  /\ alone.kind = "assigned"
            /\ row = UpdatedRow(RowInput, alone.locals)

\* C3: an extract of zero rows leads to the e-mail about blank data and to
\* nothing else: no truncate, no append and no e-mail about success.
C3_EmptyExtract ==
    /\ [][(pc = "CopyFeatures" /\ pc' # "Error" /\ memoryFeat' = 0)
            => pc' = "NotifyEmpty"]_vars
    /\ [][pc = "NotifyEmpty"
            => /\ calls' = Append(calls, "email:blank")
               /\ parcelsDestination' = parcelsDestination
               /\ pc' \in {"Idle", "Error"}]_vars
    /\ []((pc = "NotifyEmpty" \/ "email:blank" \in CallSet)
            => CallSet \cap {"TruncateTable", "Append", "email:success"} = {})

C3_Witness ==
    /\ pc = "Idle"
    /\ error = "none"
    /\ calls = <<"submitJob", "resultUrl", "downloadZip", "unzip", "email:blank">>

C5_AlwaysBackToIdle ==
    /\ [][(error' # error /\ error' # "none") => pc' = "Error"]_vars
    /\ [][pc = "Error"
            => pc' = "Idle" /\ calls' = Append(calls, "email:error")]_vars
    /\ (pc # "Idle") ~> (pc = "Idle")

\* C5, amended: every failure leads to Error; Error issues one e-mail about the
\* failure and then the run is back at Idle, unless sending that e-mail raises,
\* which ends the script; a run stays for ever in no state but the polling of a
\* job that the server keeps reporting as submitted or executing.
C5_ErrorHandling ==
    /\ [][(error' # error /\ error' # "none") => pc' = "Error"]_vars
    /\ [][pc = "Error"
            => /\ pc' \in {"Idle", "Crashed"}
               /\ calls' = Append(calls, "email:error")]_vars
    /\ []((pc \in {"Idle", "Crashed"} /\ error # "none")
            => /\ Times("email:error") = 1
               /\ calls[Len(calls)] = "email:error")
    /\ []((pc \in {"Idle", "Crashed"} /\ error = "none")
            => Times("email:error") = 0)
    /\ []<>(pc \in {"Idle", "Crashed", "Poll"})

\* a run that failed, reported it once and is back at Idle
C5_Witness ==
    /\ pc = "Idle"
    /\ error = "ValueError"
    /\ Times("email:error") = 1

\* C6: a run truncates at most once and appends at most once, the truncate
\* first, and both only when the two cursors have passed every row.
C6_LoadOnce ==
    /\ [](/\ Times("TruncateTable") <= 1
          /\ Times("Append") <= 1
          /\ Before("TruncateTable", "Append"))
    /\ [][(calls' = Append(calls, "TruncateTable") \/ calls' = Append(calls, "Append"))
            => /\ pc \in {"Truncate", "Append"}
               /\ memoryFeat >= 1
               /\ parsed = memoryFeat
               /\ keyed = memoryFeat]_vars

\* both rows of a two-row extract were parsed and keyed, and the load is done
C6_Witness ==
    /\ pc = "RemoveZip"
    /\ "Append" \in CallSet
    /\ parsed = MaxRecords
    /\ keyed = MaxRecords

\* mail_addr4 is a name of countriesList, whatever its case
IsKnownCountry(s) == Lower(s) \in countriesList

\* C7, as claimed: mail_addr4 being UNKNOWN or a known country makes it the
\* country, with mail_addr3 the state, mail_addr2 the city, mail_addr1 the
\* address and owner_name the owner.
C7_CountryOrUnknown ==
    (ParsedRow /\ (row.mail_addr4 = UNKNOWN \/ IsKnownCountry(row.mail_addr4))) =>
        /\ row.owner_country = row.mail_addr4
        /\ row.owner_state = row.mail_addr3
        /\ row.owner_city = row.mail_addr2
        /\ row.owner_address = row.mail_addr1
        /\ row.owner = row.owner_name

\* C7, amended: a known country in mail_addr4 is the country, with mail_addr3
\* the state, mail_addr2 the city, mail_addr1 the address, owner_name the owner
\* and an empty zip; UNKNOWN in mail_addr4 gives owner_name as the owner and
\* the five other columns empty.
C7_Country ==
    /\ (ParsedRow /\ IsKnownCountry(row.mail_addr4)) =>
          RowOutput = <<row.owner_name, row.mail_addr1, row.mail_addr2,
                        row.mail_addr3, Empty, row.mail_addr4>>
    /\ (ParsedRow /\ row.mail_addr4 = UNKNOWN) =>
          RowOutput = <<row.owner_name, Empty, Empty, Empty, Empty, Empty>>

\* a row with 'Japan' in mail_addr4 was written with that country
C7_Witness ==
    /\ ParsedRow
    /\ row.mail_addr4 = Japan
    /\ row.owner_country = Japan
    /\ row.owner_state = MAIN_123

\* starts with PO or P O, or holds PO BOX, P O BOX or P.O. BOX
PoBoxForm(s) ==
    \/ StartsWith(s, PO) \/ StartsWith(s, P_O)
    \/ Contains(s, PO_BOX) \/ Contains(s, P_O_BOX) \/ Contains(s, PdotOdot_BOX)

\* mail_addr4 is read as city, state and zip
Addr4IsCityStateZip ==
    /\ ParsedRow
    /\ row.mail_addr4 # Blank
    /\ row.mail_addr4 # UNKNOWN
    /\ ~IsKnownCountry(row.mail_addr4)
    /\ cityStateZipRegex(row.mail_addr4).matched

\* the text after the street number that s starts with
AfterLeadingNumber(s) == Slice(s, SkipSpaces(s, DigitRun(s, 1) + 1), Len(s))

\* the text from the first street number of s on: one to five digits, a
\* non-digit and at least one more character
FromStreetNumber(s) ==
    Slice(s, Least({ p \in 1..Len(s) : AddressAt(s, p) }), Len(s))

\* 'SOUTH LAKE TAHOE'
SOUTH_LAKE_TAHOE == <<"S","O","U","T","H"," ","L","A","K","E"," ","T","A","H","O","E">>

\* the columns that 'SOUTH LAKE TAHOE CA 96150' gives
TahoeCityStateZip ==
    row.mail_addr4 = SLT =>
        /\ row.owner_city = SOUTH_LAKE_TAHOE
        /\ row.owner_state = <<"C","A">>
        /\ row.owner_zip = <<"9","6","1","5","0">>
        /\ row.owner_country = Empty

\* C8, as claimed: the address is mail_addr3 without its leading street
\* number, so that '123 MAIN ST' gives 'MAIN ST'.
C8_NumberStripped ==
    (Addr4IsCityStateZip /\ ~PoBoxForm(row.mail_addr3)) =>
        /\ TahoeCityStateZip
        /\ row.owner_address = AfterLeadingNumber(row.mail_addr3)

\* the first cursor holds a row of the extract, parsed or being parsed
RowInHand ==
    /\ pc \in {"Parsing", "JoinKeys", "Error"}
    /\ keyed = 0
    /\ DOMAIN row = DOMAIN NoRow
    /\ row.mail_addr4 # NULL

\* mail_addr3 holds no street number
NoStreetNumber(s) == \A p \in 1..Len(s) : ~AddressAt(s, p)

\* C8, amended: city, state and zip are the three groups, the country is
\* empty, and the address is mail_addr3 from its first street number on, the
\* number kept: '123 MAIN ST' gives '123 MAIN ST'; a mail_addr3 without a
\* street number makes the parse raise AttributeError.
C8_NumberKept ==
    /\ (Addr4IsCityStateZip /\ ~PoBoxForm(row.mail_addr3)) =>
          /\ TahoeCityStateZip
          /\ row.owner_address = FromStreetNumber(row.mail_addr3)
          /\ row.mail_addr3 = MAIN_123 => row.owner_address = MAIN_123
    /\ (/\ RowInHand
        /\ row.mail_addr4 \notin {Blank, UNKNOWN}
        /\ ~IsKnownCountry(row.mail_addr4)
        /\ cityStateZipRegex(row.mail_addr4).matched
        /\ ~PoBoxForm(row.mail_addr3)
        /\ NoStreetNumber(row.mail_addr3)) =>
          /\ pc = "Error"
          /\ error = "AttributeError"
          /\ \A k \in 1..6 : RowOutput[k] = NULL

\* the row of the example
C8_Witness ==
    /\ ParsedRow
    /\ row.mail_addr4 = SLT
    /\ row.mail_addr3 = MAIN_123
    /\ row.owner_city = SOUTH_LAKE_TAHOE
    /\ row.owner_address = MAIN_123

\* mail_addr4 holds text that is no known country, not UNKNOWN and no city,
\* state and zip
Addr4Unparsed ==
    /\ ParsedRow
    /\ row.mail_addr4 # Blank
    /\ row.mail_addr4 # UNKNOWN
    /\ ~IsKnownCountry(row.mail_addr4)
    /\ ~cityStateZipRegex(row.mail_addr4).matched

C10_JobOutcome ==
    /\ pc = "Poll" => StillRunning(jobStatus)
    /\ pc = "GetZip" => ~StillRunning(jobStatus)
    /\ (jobStatus = "esriJobSucceeded" /\ pc = "GetZip") => jobResult = "bound"
    /\ "unzip" \in CallSet =>
          /\ jobStatus = "esriJobSucceeded" \/ pc \in {"Idle", "Crashed"}
          /\ Before("resultUrl", "downloadZip")
          /\ Before("downloadZip", "unzip")
    /\ jobStatus = "esriJobFailed" =>
          /\ pc \in {"GetZip", "Error"}
          /\ pc = "Error" => error = "ValueError"
          /\ "downloadZip" \notin CallSet

\* the row was written by cursor.updateRow
Written == ParsedRow /\ \E k \in 1..6 : RowOutput[k] # NULL

\* a row of the United States with mail_addr1..mail_addr4 all blank
UsaAllBlank ==
    /\ row.owner_name = USA
    /\ row.mail_addr1 = Blank
    /\ row.mail_addr2 = Blank
    /\ row.mail_addr3 = Blank
    /\ row.mail_addr4 = Blank

\* what the branch of the United States writes for the row
UsaOutput ==
    LET m == cityStateZipRegex(row.mail_addr2)
    IN  IF m.matched
        THEN <<row.owner_name, row.mail_addr1, m.g1, m.g2, m.g3, Empty>>
        ELSE <<row.owner_name, row.mail_addr1, Empty, Empty, Empty, Empty>>

\* the guards are tried in the order mail_addr4, mail_addr3, United States,
\* blank owner_name, blank mail_addr1, otherwise, and the first that holds
\* decides what is written
FirstGuardDecides ==
    Written =>
        IF row.mail_addr4 # Blank
        THEN row = UpdatedRow(RowInput, MailAddr4(RowInput, NoLocals).locals)
        ELSE IF row.mail_addr3 # Blank
        THEN row = UpdatedRow(RowInput, MailAddr3(RowInput, NoLocals).locals)
        ELSE IF row.owner_name = USA
        THEN RowOutput = UsaOutput
        ELSE IF row.owner_name = Blank
        THEN RowOutput = <<Empty, Empty, Empty, Empty, Empty, Empty>>
        ELSE IF row.mail_addr1 = Blank
        THEN RowOutput = <<row.owner_name, Empty, Empty, Empty, Empty, Empty>>
        ELSE row.owner = row.owner_name

\* C11, as claimed: the guards are tried in the ladder's order, and a row of
\* the United States with mail_addr1..mail_addr4 all blank is not handled by
\* the branch of the United States but by the branch of the blank mail_addr1.
C11_UsaNeedsAddr1 ==
    /\ FirstGuardDecides
    /\ (Written /\ UsaAllBlank) =>
          RowOutput = <<USA, Empty, Empty, Empty, Empty, Empty>>

\* C11, amended: the guards are tried in the ladder's order, and the branch
\* of the United States is selected whatever mail_addr1 holds: a row of the
\* United States with mail_addr1..mail_addr4 all blank is handled by it and
\* gets the blank mail_addr1 (one space) as its address.
C11_LadderOrder ==
    /\ FirstGuardDecides
    /\ (ParsedRow /\ UsaAllBlank) =>
          RowOutput = <<USA, Blank, Empty, Empty, Empty, Empty>>

\* the row of the example has been written
C11_Witness ==
    /\ ParsedRow
    /\ UsaAllBlank
    /\ row.owner = USA
    /\ row.owner_address = Blank

\* a run that may load: the dates differed, the job succeeded and its archive
\* was fetched and unzipped, the extract holds rows, and both cursors have
\* passed every row with no exception raised
FullRun ==
    /\ error = "none"
    /\ Moment(sltLastUpdate) # Moment(edcLastUpdate)
    /\ jobStatus = "esriJobSucceeded"
    /\ jobResult = "bound"
    /\ {"submitJob", "resultUrl", "downloadZip", "unzip"} \subseteq CallSet
    /\ "email:blank" \notin CallSet
    /\ memoryFeat >= 1
    /\ parsed = memoryFeat
    /\ keyed = memoryFeat

\* C12: the destination is truncated only in a run whose dates differed, whose
\* job succeeded and was downloaded, whose extract holds rows and whose rows
\* were all parsed and keyed without error; no other step of any run changes
\* the destination.
C12_TruncateOnlyInFullRun ==
    /\ [][calls' = Append(calls, "TruncateTable") => FullRun]_vars
    /\ [][parcelsDestination' # parcelsDestination
            => /\ pc \in {"Truncate", "Append"}
               /\ FullRun
               /\ "TruncateTable" \in { calls'[i] : i \in 1..Len(calls') }]_vars
    /\ []("TruncateTable" \in CallSet
            => /\ Moment(sltLastUpdate) # Moment(edcLastUpdate)
               /\ {"downloadZip", "unzip"} \subseteq CallSet
               /\ "email:blank" \notin CallSet)

\* the destination has just been truncated, with every row of the extract
\* parsed and keyed
C12_Witness ==
    /\ pc = "Append"
    /\ parcelsDestination = EmptyDataset
    /\ "TruncateTable" \in CallSet
    /\ keyed = MaxRecords

====
